---- MODULE Spec2Model ----
(***************************************************************************)
(* Model of src/src/player.c (pianobar-save): the player thread            *)
(* BarPlayerThread with its retry loop (openStream, openFilter,            *)
(* openDevice, play, finish), the pause gate of play, the recording tee    *)
(* and the final publication of the recording, together with the caller    *)
(* thread that sets doPause / doQuit and signals pauseCond.                *)
(***************************************************************************)
EXTENDS Integers, Sequences, FiniteSets, TLC

\* ------------------------------------------------------------------ bounds
MaxPackets == 2     \* packets in the stream
MaxPktSize == 2     \* decode calls needed to consume the largest packet
MaxCorrupt == 1     \* AVERROR_INVALIDDATA results the stream library injects
MaxTbDen == 3       \* largest denominator of a time base
MaxPts == 2         \* largest source timestamp handed to the tee
MaxWritten == 2     \* packets the tee rescales in a run
ShortWait == 5000000    \* a wait shorter than the watchdog's timeout (usec)
LongWait == 11000000    \* a wait longer than the watchdog's timeout (usec)

\* --------------------------------------------------------------- constants
\* index of the stream av_find_best_stream selects (player->streamIdx)
streamIdx == 0

VARIABLES
    \* the input and the settings
    stream,         \* the packets av_read_frame delivers, in file order
    save_dir,       \* settings->save_dir != NULL
    finalExists,    \* a file exists at save_complete (finalPath)
    \* caller-set flags (player_t)
    doQuit,
    doPause,
    \* worker thread, BarPlayerThread
    pc,             \* position of the worker in BarPlayerThread / play
    mode,           \* player->mode
    pret,           \* result returned by the thread
    retry,          \* local of BarPlayerThread
    playRet,        \* value play() returned last ("none" before)
    lastTimestamp,  \* player->lastTimestamp
    save_file,      \* player->save_file (recordingEnabled)
    \* the open input (fctx) and the packet in hand
    pos,            \* index of the next packet av_read_frame returns
    pkt,            \* index of the packet in hand (0: none)
    size,           \* pkt.size, in decode calls still needed
    resumeFrom,     \* timestamp the last openStream sought to (0: no seek)
    seekFailed,     \* av_seek_frame failed in the last openStream
    readsAfterQuit, \* av_read_frame calls made since doQuit was set (<= 2)
    readLog,        \* packets handed to the tee, in read order
    handles,        \* fctx, st, decoder, fgraph, fvolume, aoDev of the player
    ofcx,           \* player->ofcx: "unset", "garbage", "valid" or "freed"
    ofcxLost,       \* output contexts overwritten without being released
    elapsed,        \* time since the last ping () that was spent waiting
                    \* outside the stream library, in microseconds
    tracks,         \* the input's tracks: the selected index and the codec
                    \* and stream time bases of each track
    written,        \* the timestamps handed to av_write_frame: source pts
                    \* and rescaled pts of each packet
    \* the world outside: device, temp file, final file
    played,         \* buffers handed to ao_play, as <<packet, part>>
    devFailed,      \* an ao_play call has failed
    writeAfterFail, \* ao_play was called again after a failed call
    tmpExists,      \* the temp output exists at tmp_filename
    teeLog,         \* packets av_write_frame appended to the temp output
    trailer,        \* av_write_trailer was called
    published,      \* the temp file was moved to save_complete
    \* history of the run
    nOpens,         \* calls of openStream so far
    openRes,        \* outcome of the last open attempt
    nCorrupt,       \* AVERROR_INVALIDDATA results so far
    errTs,          \* lastTimestamp when play returned AVERROR_INVALIDDATA
    quitEarly,      \* doQuit was set before mode became FINISHED
    gateWaited,     \* the worker blocked in the gate with the packet in hand
    pausedWrites    \* packets written to the device since doPause was set

envVars    == <<stream, save_dir, tracks, written>>
flagVars   == <<doQuit, doPause>>
threadVars == <<mode, pret, retry, playRet, lastTimestamp, save_file>>
pktVars    == <<pos, pkt, size, resumeFrom, seekFailed>>
devVars    == <<played, devFailed, writeAfterFail>>
fileVars   == <<finalExists, tmpExists, teeLog, trailer, published>>
histVars   == <<nOpens, openRes, nCorrupt, errTs, quitEarly>>
pauseHist  == <<gateWaited, pausedWrites>>
auxVars    == <<readsAfterQuit, readLog>>
resVars    == <<handles, ofcx, ofcxLost>>
playerVars == <<flagVars, threadVars, pktVars, devVars, fileVars, histVars,
                pauseHist, auxVars, resVars>>

vars == <<envVars, pc, playerVars, elapsed>>

\* ------------------------------------------------------------------ input
\* A packet: the stream it belongs to, the number of avcodec_decode_audio4
\* calls that consume it (the smallest and the largest), and whether the
\* decoder rejects it (decoded < 0).
AudioPackets == { [stream_index |-> streamIdx, size |-> n, bad |-> FALSE] :
                    n \in {1, MaxPktSize} }
BadPacket    == [stream_index |-> streamIdx, size |-> 1, bad |-> TRUE]
OtherPacket  == [stream_index |-> streamIdx + 1, size |-> 1, bad |-> FALSE]
Packets      == AudioPackets \cup {BadPacket, OtherPacket}
Streams      == [1..MaxPackets -> Packets]

\* pkt.pts of the i-th packet: presentation times start at 0 and increase
Pts(i) == i - 1

\* av_seek_frame (fctx, streamIdx, ts, 0): the first packet of the selected
\* stream whose pts is at least ts; none: the seek fails, position unchanged
SeekCandidates(s, ts) ==
    { i \in 1..Len(s) : s[i].stream_index = streamIdx /\ Pts(i) >= ts }
Min(S) == CHOOSE x \in S : \A y \in S : x <= y
SeekPos(s, ts) ==
    IF SeekCandidates(s, ts) = {} THEN 1 ELSE Min(SeekCandidates(s, ts))

\* ------------------------------------------------ decisions of the code
\* openStream: save_file is set when a save directory is configured and
\* access (save_complete, F_OK) finds no file
RecordingEnabledAnyway(dir, exists) == dir
RecordingEnabled(dir, exists) == dir /\ ~exists

\* openStream: av_seek_frame is called with lastTimestamp when it is > 0
ResumeFromStart(ts) == 0
ResumeFrom(ts) == IF ts > 0 THEN ts ELSE 0

\* BarPlayerThread: the result an open failure leaves in pret
StreamFailures == {"open_input", "find_stream_info", "find_best_stream",
                   "find_decoder", "codec_open2"}
OpenFailAlwaysSoft(stage) == "SOFTFAIL"
OpenFailRet(stage) ==
    IF stage \in StreamFailures THEN "SOFTFAIL" ELSE "HARDFAIL"

\* BarPlayerThread: retry = play (player) == AVERROR_INVALIDDATA
Retry(ret) == ret = "INVALIDDATA"

\* play: the pause gate lets the worker through when doPause is clear
GateAlwaysOpen == TRUE
GateOpen == ~doPause

\* BarPlayerThread: the recording is finalized and moved
ShouldFinalizeIgnoringQuit == save_file
ShouldFinalize == save_file /\ ~doQuit

\* the player's handles as the caller's zeroed player_t has them
NoHandles == [fctx |-> FALSE, st |-> FALSE, codec |-> FALSE,
              fgraph |-> FALSE, fvolume |-> "null", aoDev |-> FALSE]

\* openStream: what a failure at a stage leaves in the player
\* (avformat_open_input frees the context and clears fctx when it fails;
\* player->st is set once the best stream is found)
StreamHandles(h, stage) ==
    [h EXCEPT !.fctx = stage # "open_input",
              !.st = stage \in {"find_decoder", "codec_open2", "ok"},
              !.codec = stage = "ok"]

\* openFilter: the steps at which the graph can fail
FilterFailures == {"graph_alloc", "abuffer", "later"}

\* openFilter: what the player holds when the graph failed at a step, or
\* was built ("ok")
FilterHandles(h, step) ==
    [h EXCEPT !.fgraph = step # "graph_alloc",
              !.fvolume = IF step \in {"later", "ok"} THEN "valid" ELSE @]

\* (a teardown that leaves the input context in place)
FinishKeepsInput(h) ==
    [h EXCEPT !.aoDev = FALSE, !.fgraph = FALSE,
              !.fvolume = IF @ = "valid" THEN "dangling" ELSE @,
              !.codec = IF h.st THEN FALSE ELSE @, !.st = FALSE]

\* finish: ao_close, avfilter_graph_free (fvolume keeps pointing into the
\* freed graph), avcodec_close, avformat_close_input
FinishHandles(h) ==
    [h EXCEPT !.aoDev = FALSE, !.fgraph = FALSE,
              !.fvolume = IF @ = "valid" THEN "dangling" ELSE @,
              !.codec = IF h.st THEN FALSE ELSE @, !.st = FALSE,
              !.fctx = FALSE]

\* BarPlayerSetVolume: assert (fvolume != NULL), then the filter is used
SetVolumeSafe(h) == h.fvolume = "valid" /\ h.fgraph

\* intCb: (av_gettime () - player->ping) > 10*1000000, on the time that
\* has passed since the last ping
Timeout == 10 * 1000000
IntCb(sincePing) == sincePing > Timeout

\* ping (): player->ping = av_gettime (), nothing has passed since
Ping == 0

\* how long the worker can be kept in one wait: less than the timeout,
\* exactly the timeout, more than the timeout
WaitTimes == {ShortWait, Timeout, LongWait}

\* the worker has returned, or the process was aborted
Ended == {"done", "crashed"}

\* pthread_cond_broadcast (pauseCond): a worker blocked in
\* pthread_cond_wait returns and checks doPause again
Signal(p) == IF p = "wait" THEN "gate" ELSE p

\* the tracks of the input (fctx->streams[])
TrackIds == {0, 1}

\* time bases, as <<num, den>>
TimeBases == {<<1, d>> : d \in 1..MaxTbDen}

\* av_rescale_q (a, bq, cq): a * bq / cq, rounded to the nearest integer
\* (halves away from zero), for a >= 0
RescaleQ(a, bq, cq) ==
    LET b == bq[1] * cq[2]
        c == bq[2] * cq[1]
    IN  (a * b + (c \div 2)) \div c

\* openStream: ost->time_base = player->st->time_base
OutTimeBase(t) == t.st_tb[t.selected]

\* play: pkt_write.pts = av_rescale_q (pkt_write.pts,
\*     fctx->streams[0]->codec->time_base, ofcx->streams[0]->time_base)
\* (dts is rescaled by the same call)
TeePts(p, t) == RescaleQ(p, t.codec_tb[0], OutTimeBase(t))

\* ------------------------------------------------------------------- Init
\* the player as BarPlayerThread finds it
InitPlayer ==
    /\ doQuit = FALSE
    /\ doPause = FALSE
    /\ pc = "openStream"
    /\ mode = "OPENING"
    /\ pret = "OK"
    /\ retry = FALSE
    /\ playRet = "none"
    /\ lastTimestamp = 0
    /\ save_file = FALSE
    /\ pos = 1
    /\ pkt = 0
    /\ size = 0
    /\ resumeFrom = 0
    /\ seekFailed = FALSE
    /\ played = <<>>
    /\ devFailed = FALSE
    /\ writeAfterFail = FALSE
    /\ tmpExists = FALSE
    /\ teeLog = <<>>
    /\ trailer = FALSE
    /\ published = FALSE
    /\ nOpens = 0
    /\ openRes = "none"
    /\ nCorrupt = 0
    /\ errTs = 0
    /\ quitEarly = FALSE
    /\ gateWaited = FALSE
    /\ pausedWrites = {}
    /\ readsAfterQuit = 0
    /\ readLog = <<>>
    /\ handles = NoHandles
    /\ ofcx = "unset"
    /\ ofcxLost = 0
    /\ elapsed = 0

Init ==
    /\ stream \in Streams
    /\ save_dir \in BOOLEAN
    /\ finalExists \in (IF save_dir THEN BOOLEAN ELSE {FALSE})
    /\ tracks = [selected |-> streamIdx,
                 codec_tb |-> [i \in TrackIds |-> <<1, 1>>],
                 st_tb |-> [i \in TrackIds |-> <<1, 1>>]]
    /\ written = <<>>
    /\ InitPlayer

\* ----------------------------------------------------------- the caller
\* requestPause: sets doPause and signals the condition
RequestPause ==
    /\ pc \notin Ended
    /\ ~doPause
    /\ doPause' = TRUE
    /\ pc' = Signal(pc)
    /\ pausedWrites' = {}
    /\ UNCHANGED gateWaited
    /\ UNCHANGED <<envVars, elapsed, auxVars, resVars, doQuit, threadVars,
                   pktVars, devVars, fileVars, histVars>>

\* requestResume: clears doPause and signals the condition
RequestResume ==
    /\ pc \notin Ended
    /\ doPause
    /\ doPause' = FALSE
    /\ pc' = Signal(pc)
    /\ pausedWrites' = {}
    /\ UNCHANGED gateWaited
    /\ UNCHANGED <<envVars, elapsed, auxVars, resVars, doQuit, threadVars,
                   pktVars, devVars, fileVars, histVars>>

\* requestQuit: sets doQuit and signals the condition
RequestQuit ==
    /\ pc \notin Ended
    /\ ~doQuit
    /\ doQuit' = TRUE
    /\ pc' = Signal(pc)
    /\ quitEarly' = (mode # "FINISHED")
    /\ UNCHANGED <<envVars, elapsed, auxVars, resVars, doPause, threadVars,
                   pktVars, devVars, fileVars, nOpens, openRes, nCorrupt,
                   errTs, pauseHist>>

Caller == RequestPause \/ RequestResume \/ RequestQuit

\* ------------------------------------------------- the worker: opening
\* openStream fails at one of its checked steps: BarPlayerThread records
\* SOFTFAIL; mode, save_file and lastTimestamp are as they were
OpenStreamFail ==
    /\ pc = "openStream"
    /\ elapsed' = Ping
    /\ \E stage \in StreamFailures :
        /\ openRes' = stage
        /\ pret' = OpenFailRet(stage)
        /\ handles' = StreamHandles(handles, stage)
    /\ retry' = FALSE
    /\ nOpens' = nOpens + 1
    /\ pc' = "finish"
    /\ UNCHANGED <<envVars, auxVars, ofcx, ofcxLost, flagVars, mode, playRet,
                   lastTimestamp, save_file, pktVars, devVars, fileVars,
                   nCorrupt, errTs, quitEarly, pauseHist>>

\* openStream succeeds: input opened, decoder opened, seek to
\* lastTimestamp (its result is not checked), mode PLAYING, recording
\* evaluated and, when enabled, the temp output created anew
OpenStreamOk ==
    /\ pc = "openStream"
    /\ elapsed' = Ping
    /\ retry' = FALSE
    /\ nOpens' = nOpens + 1
    /\ handles' = StreamHandles(handles, "ok")
    /\ resumeFrom' = ResumeFrom(lastTimestamp)
    /\ \E seekOk \in (IF resumeFrom' > 0 THEN BOOLEAN ELSE {TRUE}) :
        /\ pos' = IF resumeFrom' > 0 /\ seekOk
                  THEN SeekPos(stream, resumeFrom') ELSE 1
        /\ seekFailed' = ~seekOk
    /\ pkt' = 0
    /\ size' = 0
    /\ mode' = "PLAYING"
    /\ save_file' = RecordingEnabled(save_dir, finalExists)
    /\ IF save_file'
       THEN tmpExists' = TRUE /\ teeLog' = <<>>
       ELSE UNCHANGED <<tmpExists, teeLog>>
    /\ ofcx' = IF save_file' THEN "valid" ELSE "garbage"
    /\ ofcxLost' = IF ofcx = "valid" THEN ofcxLost + 1 ELSE ofcxLost
    /\ openRes' = "stream_ok"
    /\ pc' = "openFilter"
    /\ UNCHANGED <<envVars, auxVars, flagVars, pret, playRet, lastTimestamp,
                   devVars, finalExists, trailer, published, nCorrupt, errTs,
                   quitEarly, pauseHist>>

\* openFilter: the graph is built, or a step fails (HARDFAIL)
OpenFilter ==
    /\ pc = "openFilter"
    /\ \/ /\ handles' = FilterHandles(handles, "ok")
          /\ pc' = "openDevice"
          /\ UNCHANGED <<pret, openRes>>
       \/ /\ \E step \in FilterFailures :
                handles' = FilterHandles(handles, step)
          /\ openRes' = "filter"
          /\ pret' = OpenFailRet("filter")
          /\ pc' = "finish"
    /\ UNCHANGED <<envVars, elapsed, auxVars, ofcx, ofcxLost, flagVars, mode,
                   retry, playRet, lastTimestamp, save_file, pktVars, devVars,
                   fileVars, nOpens, nCorrupt, errTs, quitEarly, pauseHist>>

\* openDevice: ao_open_live succeeds, or returns NULL (HARDFAIL)
OpenDevice ==
    /\ pc = "openDevice"
    /\ \/ /\ openRes' = "ok"
          /\ handles' = [handles EXCEPT !.aoDev = TRUE]
          /\ pc' = "while"
          /\ UNCHANGED pret
       \/ /\ openRes' = "device"
          /\ pret' = OpenFailRet("device")
          /\ pc' = "finish"
          /\ UNCHANGED handles
    /\ UNCHANGED <<envVars, elapsed, auxVars, ofcx, ofcxLost, flagVars, mode,
                   retry, playRet, lastTimestamp, save_file, pktVars, devVars,
                   fileVars, nOpens, nCorrupt, errTs, quitEarly, pauseHist>>

\* ------------------------------------------------ the worker: play ()
\* play returns ret to BarPlayerThread, which computes retry from it
PlayReturns(ret) ==
    /\ playRet' = ret
    /\ retry' = Retry(ret)
    /\ pc' = "finish"

\* (a loop that looks at doQuit only once the stream has ended)
PlayLoopUntilEnd ==
    /\ pc = "while"
    /\ IF doQuit /\ pos > Len(stream)
       THEN PlayReturns("OK")
       ELSE pc' = "read" /\ UNCHANGED <<playRet, retry>>
    /\ UNCHANGED <<envVars, elapsed, auxVars, resVars, flagVars, mode, pret,
                   lastTimestamp, save_file, pktVars, devVars, fileVars,
                   histVars, pauseHist>>

\* while (!player->doQuit)
PlayLoop ==
    /\ pc = "while"
    /\ IF doQuit
       THEN PlayReturns("OK")
       ELSE pc' = "read" /\ UNCHANGED <<playRet, retry>>
    /\ UNCHANGED <<envVars, elapsed, auxVars, resVars, flagVars, mode, pret,
                   lastTimestamp, save_file, pktVars, devVars, fileVars,
                   histVars, pauseHist>>

\* av_read_frame: a packet, the end of the stream, corrupted data, or
\* another failure (such as a read the interrupt callback aborted)
ReadFrame ==
    /\ pc = "read"
    /\ elapsed' = Ping
    /\ \/ /\ pos <= Len(stream)
          /\ pos' = pos + 1
          /\ IF stream[pos].stream_index # streamIdx
             THEN pc' = "while" /\ UNCHANGED <<pkt, size>>
             ELSE /\ pkt' = pos
                  /\ size' = stream[pos].size
                  /\ pc' = "tee"
          /\ UNCHANGED <<playRet, retry, nCorrupt, errTs>>
       \/ /\ pos > Len(stream)
          /\ PlayReturns("EOF")
          /\ UNCHANGED <<pos, pkt, size, nCorrupt, errTs>>
       \/ /\ nCorrupt < MaxCorrupt
          /\ PlayReturns("INVALIDDATA")
          /\ nCorrupt' = nCorrupt + 1
          /\ errTs' = lastTimestamp
          /\ UNCHANGED <<pos, pkt, size>>
       \/ /\ PlayReturns("EIO")
          /\ UNCHANGED <<pos, pkt, size, nCorrupt, errTs>>
    /\ readsAfterQuit' = IF ~doQuit THEN 0
                       ELSE IF readsAfterQuit < 2 THEN readsAfterQuit + 1
                       ELSE 2
    /\ UNCHANGED <<envVars, readLog, resVars, flagVars, mode, pret,
                   lastTimestamp, save_file, resumeFrom, seekFailed, devVars,
                   fileVars, nOpens, openRes, quitEarly, pauseHist>>

\* if (player->save_file) av_write_frame (player->ofcx, &pkt_write)
Tee ==
    /\ pc = "tee"
    /\ teeLog' = IF save_file THEN Append(teeLog, pkt) ELSE teeLog
    /\ readLog' = IF save_file THEN Append(readLog, pkt) ELSE readLog
    /\ pc' = "gate"
    /\ UNCHANGED <<envVars, elapsed, readsAfterQuit, resVars, flagVars,
                   threadVars, pktVars, devVars, finalExists, tmpExists,
                   trailer, published, histVars, pauseHist>>

\* (a gate that, finding doPause set, gives up the packet in hand and goes
\* back to the top of the loop)
PauseGateDropsPacket ==
    /\ pc = "gate"
    /\ pc' = IF GateOpen THEN "decode" ELSE "while"
    /\ UNCHANGED <<envVars, elapsed, auxVars, resVars, flagVars, threadVars,
                   pktVars, devVars, fileVars, histVars, pauseHist>>

\* the pause gate, under pauseMutex: go on when doPause is clear, else
\* block in pthread_cond_wait until the condition is signalled; the check
\* and the wait are one step because the caller changes doPause under the
\* same mutex (av_read_play / av_read_pause do not move the read position)
PauseGate ==
    /\ pc = "gate"
    /\ IF GateOpen
       THEN pc' = "decode" /\ UNCHANGED gateWaited
       ELSE pc' = "wait" /\ gateWaited' = TRUE
    /\ UNCHANGED <<envVars, elapsed, auxVars, resVars, flagVars, threadVars,
                   pktVars, devVars, fileVars, histVars, pausedWrites>>

\* pkt.size -= decoded; while (pkt.size > 0)
AfterDecode(n) == IF n > 0 THEN "decode" ELSE "update"

\* avcodec_decode_audio4: an error skips the packet, otherwise one frame
\* is pushed into the filter and one buffer is ready at the sink (a call
\* that consumes data with got_frame = 0 writes nothing, as a rejected
\* packet does)
Decode ==
    /\ pc = "decode"
    /\ pc' = IF stream[pkt].bad THEN "update" ELSE "ao_play"
    /\ UNCHANGED <<envVars, elapsed, auxVars, resVars, flagVars, threadVars,
                   pktVars, devVars, fileVars, histVars, pauseHist>>

\* ao_play of the filtered buffer; its result is not looked at
AoPlay ==
    /\ pc = "ao_play"
    /\ played' = Append(played, <<pkt, stream[pkt].size - size + 1>>)
    /\ \/ UNCHANGED devFailed
       \/ /\ ~devFailed
          /\ devFailed' = TRUE
    /\ writeAfterFail' = (writeAfterFail \/ devFailed)
    /\ pausedWrites' = IF doPause THEN pausedWrites \cup {pkt}
                       ELSE pausedWrites
    /\ size' = size - 1
    /\ pc' = AfterDecode(size')
    /\ UNCHANGED <<envVars, elapsed, auxVars, resVars, flagVars, threadVars,
                   pos, pkt, resumeFrom, seekFailed, fileVars, histVars,
                   gateWaited>>

\* player->lastTimestamp = pkt.pts
UpdateTimestamp ==
    /\ pc = "update"
    /\ lastTimestamp' = Pts(pkt)
    /\ gateWaited' = FALSE
    /\ pc' = "while"
    /\ UNCHANGED <<envVars, elapsed, auxVars, resVars, flagVars, mode, pret,
                   retry, playRet, save_file, pktVars, devVars, fileVars,
                   histVars, pausedWrites>>

\* --------------------------------------- the worker: teardown and exit
\* (a teardown that puts mode back to its initial value before a retry)
FinishResetsMode ==
    /\ pc = "finish"
    /\ handles' = FinishHandles(handles)
    /\ pc' = IF retry THEN "openStream" ELSE "finished"
    /\ mode' = IF retry THEN "OPENING" ELSE mode
    /\ UNCHANGED <<envVars, elapsed, auxVars, ofcx, ofcxLost, flagVars, pret,
                   retry, playRet, lastTimestamp, save_file, pktVars, devVars,
                   fileVars, histVars, pauseHist>>

\* finish, then } while (retry)
Finish ==
    /\ pc = "finish"
    /\ handles' = FinishHandles(handles)
    /\ pc' = IF retry THEN "openStream" ELSE "finished"
    /\ UNCHANGED <<envVars, elapsed, auxVars, ofcx, ofcxLost, flagVars,
                   threadVars, pktVars, devVars, fileVars, histVars,
                   pauseHist>>

\* player->mode = PLAYER_FINISHED
SetFinished ==
    /\ pc = "finished"
    /\ mode' = "FINISHED"
    /\ pc' = "finalize"
    /\ UNCHANGED <<envVars, elapsed, auxVars, resVars, flagVars, pret, retry,
                   playRet, lastTimestamp, save_file, pktVars, devVars,
                   fileVars, histVars, pauseHist>>

\* if (save_file && !doQuit): av_write_trailer, avformat_free_context;
\* otherwise return pret
Finalize ==
    /\ pc = "finalize"
    /\ IF ShouldFinalize
       THEN /\ trailer' = TRUE
            /\ ofcx' = "freed"
            /\ pc' = "avio_close"
       ELSE /\ pc' = "done"
            /\ UNCHANGED <<trailer, ofcx>>
    /\ UNCHANGED <<envVars, elapsed, auxVars, handles, ofcxLost, flagVars,
                   threadVars, pktVars, devVars, finalExists, tmpExists,
                   teeLog, published, histVars, pauseHist>>

\* avio_close (player->ofcx->pb), system ("mv ..."), return pret. The
\* context was freed in the step before, so pb is read from freed memory:
\* either the old pointer is still there and the handle is closed and the
\* file moved, or the process is aborted
CloseAndMove ==
    /\ pc = "avio_close"
    /\ \/ /\ published' = TRUE
          /\ finalExists' = TRUE
          /\ tmpExists' = FALSE
          /\ pc' = "done"
       \/ /\ ofcx = "freed"
          /\ pc' = "crashed"
          /\ UNCHANGED <<published, finalExists, tmpExists>>
    /\ UNCHANGED <<envVars, elapsed, auxVars, resVars, flagVars, threadVars,
                   pktVars, devVars, teeLog, trailer, histVars, pauseHist>>

Worker ==
    \/ OpenStreamFail \/ OpenStreamOk \/ OpenFilter \/ OpenDevice
    \/ PlayLoop \/ ReadFrame \/ Tee \/ PauseGate \/ Decode \/ AoPlay
    \/ UpdateTimestamp \/ Finish \/ SetFinished \/ Finalize
    \/ CloseAndMove

Next == Caller \/ Worker

\* time passes while the worker is blocked outside the stream library: in
\* pthread_cond_wait of the pause gate, in the decoder or in ao_play
TimePasses ==
    /\ pc \in {"wait", "decode", "ao_play"}
    /\ elapsed = 0
    /\ \E d \in WaitTimes : elapsed' = elapsed + d
    /\ UNCHANGED <<envVars, pc, playerVars>>

WatchdogNext == Next \/ TimePasses

Spec == Init /\ [][Next]_vars

\* the worker thread is scheduled as long as it can take a step
FairSpec == Spec /\ WF_vars(Worker)

\* the timestamp rescaling of the tee, on inputs of every shape: the
\* selected track, the time bases of the tracks, non-decreasing source pts
TeeInit ==
    /\ stream = <<>>
    /\ save_dir = TRUE
    /\ finalExists = FALSE
    /\ tracks \in [selected : TrackIds, codec_tb : [TrackIds -> TimeBases],
                   st_tb : [TrackIds -> TimeBases]]
    /\ written = <<>>
    /\ InitPlayer

TeeWrite ==
    /\ Len(written) < MaxWritten
    /\ \E p \in 0..MaxPts :
        /\ written # <<>> => p >= written[Len(written)].pts
        /\ written' = Append(written, [pts |-> p, out |-> TeePts(p, tracks)])
    /\ UNCHANGED <<stream, save_dir, tracks, pc, playerVars, elapsed>>

TeeSpec == TeeInit /\ [][TeeWrite]_vars

\* the player with the clock of the watchdog
WatchdogSpec == Init /\ [][WatchdogNext]_vars

\* ------------------------------------------------- reference results
\* the buffers a packet yields: one per decode call, none for a packet of
\* another stream or one the decoder rejects
PacketFrames(s, i) ==
    IF s[i].stream_index = streamIdx /\ ~s[i].bad
    THEN [k \in 1..s[i].size |-> <<i, k>>]
    ELSE <<>>

\* the buffers of the first n packets, in read order
RECURSIVE Frames(_, _)
Frames(s, n) == IF n = 0 THEN <<>> ELSE Frames(s, n - 1) \o PacketFrames(s, n)

\* the buffers of the packet in hand whose decode calls are done
PartsDone == SubSeq(PacketFrames(stream, pkt), 1, stream[pkt].size - size)

Teardown == {"finish", "finished", "finalize", "avio_close", "done",
             "crashed"}

\* ----------------------------------------------------------------- claims

\* C1: once doQuit is set and the condition signalled, the worker
\* eventually sets mode to FINISHED and returns; stated for the case the
\* claim singles out: the worker is blocked in the pause gate and doPause
\* stays set after the quit request (a caller that clears doPause later
\* is not what the claim relies on).  Checked under FairSpec.
C1_QuitUnblocksPausedWorker ==
    (doQuit /\ doPause /\ pc = "wait") ~>
        ((pc = "done" /\ mode = "FINISHED") \/ ~doPause)

\* C2 as claimed: no device write happens while doPause is set.
C2_NoWriteWhilePaused == pausedWrites = {}

\* C2 as amended: the device writes made while doPause is set belong to at
\* most one packet, the one in hand that passed the gate before doPause was
\* set; no packet passes the gate and is written while doPause stays set.
C2_PausedWritesOnePacket ==
    /\ Cardinality(pausedWrites) <= 1
    /\ (doPause /\ pc \in {"decode", "ao_play"}) => pausedWrites \subseteq {pkt}

C2_Witness == doPause /\ pc = "wait" /\ pausedWrites # {}

\* C3: without a retry, whatever pause and resume requests are made, the
\* buffers handed to the device are at every moment exactly those of the
\* packets read so far, each once and in read order; at the end of the
\* stream all of them were played.
C3_PauseKeepsSequence ==
    nCorrupt = 0 =>
        /\ pc \in {"while", "read"} => played = Frames(stream, pos - 1)
        /\ pc \in {"tee", "gate", "wait"} => played = Frames(stream, pkt - 1)
        /\ pc \in {"decode", "ao_play"} =>
              played = Frames(stream, pkt - 1) \o PartsDone
        /\ pc = "update" => played = Frames(stream, pkt)
        /\ (pc = "done" /\ playRet = "EOF") =>
              played = Frames(stream, Len(stream))

C3_Witness ==
    /\ nCorrupt = 0
    /\ pc = "ao_play"
    /\ gateWaited
    /\ ~doPause
    /\ pkt = Len(stream)
    /\ played # <<>>

\* C4: after corrupted data the worker reopens the stream with resumeFrom
\* equal to the lastTimestamp of the moment of the error; neither the
\* teardown nor the reopen changes lastTimestamp; without a further error
\* or a quit the run ends at the end of the stream with result OK.
C4_RetryResumesAtLastTimestamp ==
    /\ (retry /\ pc = "finish") => lastTimestamp = errTs
    /\ (nOpens > 0 /\ pc = "openStream") => lastTimestamp = errTs
    /\ (nOpens > 1 /\ pc = "openFilter") =>
          (resumeFrom = errTs /\ lastTimestamp = errTs)
    /\ (pc = "done" /\ nOpens > 1 /\ openRes = "ok" /\ playRet # "EIO"
            /\ ~doQuit) => (playRet = "EOF" /\ pret = "OK")

C4_Witness ==
    /\ pc = "done"
    /\ nOpens > 1
    /\ resumeFrom > 0
    /\ playRet = "EOF"
    /\ pret = "OK"
    /\ ~doQuit

\* C5: a file is published at finalPath only when the last open attempt
\* succeeded, the decode loop ended at the end of the stream and the
\* result is OK.
C5_PublishedOnlyAfterCleanRun ==
    published => (openRes = "ok" /\ playRet = "EOF" /\ pret = "OK")

\* C6: when doQuit is set before the worker reaches FINISHED no trailer is
\* written and the temp file is not moved, and if all opens succeeded the
\* result is OK.
C6_QuitNeverPublishes ==
    /\ quitEarly => (~trailer /\ ~published)
    /\ (quitEarly /\ pc = "done" /\ openRes = "ok") => pret = "OK"

C6_Witness ==
    /\ pc = "done"
    /\ quitEarly
    /\ save_file
    /\ teeLog # <<>>
    /\ tmpExists
    /\ pret = "OK"

\* C7: save_file is true only if a save directory is configured and no
\* file exists at finalPath; otherwise no temp output is created, nothing
\* is handed to the tee, nothing is finalized or moved, and the buffers
\* played are the same as with recording enabled.
C7_RecordingOnlyForNewFile ==
    /\ (save_file /\ ~published) => (save_dir /\ ~finalExists)
    /\ (~save_dir \/ (finalExists /\ ~published)) =>
          (~save_file /\ ~tmpExists /\ teeLog = <<>> /\ ~trailer
              /\ ~published)
    /\ (nCorrupt = 0 /\ pc = "done" /\ playRet = "EOF") =>
          played = Frames(stream, Len(stream))

C7_Witness ==
    /\ save_dir
    /\ finalExists
    /\ ~published
    /\ pc = "done"
    /\ playRet = "EOF"
    /\ played # <<>>

\* C8: a failed openStream gives SOFTFAIL, a failed openFilter or
\* openDevice gives HARDFAIL, in both cases without another open attempt,
\* also on a reopen after a retry; when the last open succeeded and the
\* stream ran to its end the result is OK.
C8_OpenFailureClassification ==
    /\ openRes \in StreamFailures =>
          (pret = "SOFTFAIL" /\ pc \in Teardown /\ ~retry)
    /\ openRes \in {"filter", "device"} =>
          (pret = "HARDFAIL" /\ pc \in Teardown /\ ~retry)
    /\ (pc = "done" /\ openRes = "ok" /\ playRet = "EOF") => pret = "OK"

C8_Witness ==
    /\ pc = "done"
    /\ nOpens > 1
    /\ openRes = "device"
    /\ pret = "HARDFAIL"

\* C9: a read failure that is neither the end of the stream nor corrupted
\* data is not retried and ends the session with result SOFTFAIL.
C9_ReadFailureIsSoftfail ==
    /\ playRet = "EIO" => ~retry
    /\ (pc = "done" /\ playRet = "EIO") => pret = "SOFTFAIL"

\* C10: after the first failed device write the worker writes no more to
\* the device and terminates with result HARDFAIL.
C10_DeviceFailureIsFatal ==
    /\ ~writeAfterFail
    /\ (devFailed /\ pc = "done") => pret = "HARDFAIL"


\* position of a mode in the order OPENING, PLAYING, FINISHED
ModeRank(m) == CASE m = "OPENING" -> 0 [] m = "PLAYING" -> 1
                 [] m = "FINISHED" -> 2

\* C12: in every run, retries included, mode only moves forward in the
\* order OPENING, PLAYING, FINISHED, and once FINISHED it never changes.
C12_ModeOnlyMovesForward == [][ModeRank(mode') >= ModeRank(mode)]_vars

C12_Witness == nOpens > 1 /\ nCorrupt > 0 /\ mode = "FINISHED"

\* C13: a failure of any step of openStream, the seek to lastTimestamp
\* included, makes it return failure: the session ends with SOFTFAIL and
\* the decode loop is not entered.
C13_SeekFailureFailsOpen ==
    /\ openRes \in StreamFailures => (pret = "SOFTFAIL" /\ pc \in Teardown)
    /\ seekFailed => (pret = "SOFTFAIL" /\ pc \in Teardown)


\* C14: doQuit is sampled at the top of each packet iteration: once the
\* worker has seen it (play returned 0) it makes no further read, decode or
\* device write, and between the setting of doQuit and that moment it
\* starts at most one more packet.
C14_QuitSeenAtLoopTop ==
    /\ playRet = "OK" => (doQuit /\ pc \in Teardown)
    /\ readsAfterQuit <= 1

C14_Witness ==
    doQuit /\ readsAfterQuit = 1 /\ playRet = "OK" /\ pc = "done"

\* C15: a published recording holds every packet the tee was handed
\* during the whole session, retries included: none is lost on a reopen
\* (stated for sessions that end at the end of the stream and whose seeks
\* succeeded).
C15_RecordingKeepsEveryPacket ==
    (published /\ playRet = "EOF" /\ ~seekFailed)
        => \A i \in 1..Len(readLog) :
                    \E j \in 1..Len(teeLog) : teeLog[j] = readLog[i]


\* C17: when the worker has returned, every handle acquired during the
\* session (input, decoder, filter graph, audio device, recording output
\* context) has been released, and none was dropped on the way.
C17_AllHandlesReleased ==
    pc = "done" =>
        /\ ~handles.fctx /\ ~handles.codec /\ ~handles.fgraph
        /\ ~handles.aoDev
        /\ ofcx # "valid"
        /\ ofcxLost = 0

\* C18: in every state with mode PLAYING the volume filter and its graph
\* are built and not freed, so that BarPlayerSetVolume is safe.
C18_VolumeSafeWhilePlaying == mode = "PLAYING" => SetVolumeSafe(handles)

\* C19: finalization uses the output context only while it is valid: it
\* was created by an openStream of this session, and it is not read after
\* it was freed.
C19_OutputContextValidWhenUsed ==
    /\ (pc = "finalize" /\ ShouldFinalize) => ofcx = "valid"
    /\ pc = "avio_close" => ofcx = "valid"

\* C20: fctx is NULL at every entry of openStream, the first and every
\* reopen, whatever the attempt before reached.
C20_InputClearedBeforeOpen == pc = "openStream" => ~handles.fctx

C20_Witness ==
    pc = "openStream" /\ nOpens > 0 /\ nCorrupt > 0 /\ ~handles.fctx


\* C16: every call into the stream library is made right after ping (),
\* so that time spent outside the library (pause gate, decoder, device)
\* never makes intCb report a stall during a library call: when the worker
\* is about to call av_read_play / av_read_pause in the gate, intCb is
\* false (the reads and the open steps ping in the same step).
C16_NoStallFromTimeOutsideLibrary == pc = "gate" => ~IntCb(elapsed)


\* C11: every timestamp written to the recording is the source timestamp
\* times the time base of the selected source track divided by the output
\* track's time base, whichever track was selected (stated for the packets
\* whose exact value is an integer), and the written timestamps are
\* non-decreasing when the source timestamps are.
C11_RescaleBySelectedTrack ==
    LET s == tracks.codec_tb[tracks.selected]
        o == OutTimeBase(tracks)
    IN  /\ \A i \in 1..Len(written) :
            LET num == written[i].pts * s[1] * o[2]
                den == s[2] * o[1]
            IN  num % den = 0 => written[i].out = num \div den
        /\ \A i \in 1..Len(written), j \in 1..Len(written) :
            i <= j => written[i].out <= written[j].out

====
